---- MODULE Spec2Model ----
(***************************************************************************)
(* A model of the retrieval-augmented "nudge" service:                     *)
(*   scripts/rag_inference.py   class RAGService                           *)
(*   scripts/rag_api_server.py  the Flask facade over one shared service   *)
(*                                                                         *)
(* Python strings are TLA+ strings, Python dicts are functions from the    *)
(* keys that are present, and a Python value whose type the code tests or  *)
(* relies on (the chat history, parsed JSON) is a tagged record [t, v].    *)
(***************************************************************************)
EXTENDS Integers, Sequences, FiniteSets, TLC

VARIABLES
    chunks_dir,     \* the chunk directory: [exists, lines]
    index_dir,      \* the index directory: [faiss, pkl], each an artifact or NoFile
    env,            \* the process environment: [API_KEY, DEPLOYMENT_ID] present or not
    rag,            \* a directly constructed RAGService (CLI, tests), or NoService
    rag_service,    \* the API server's module-level singleton, or NoService
    op,             \* the last operation that ran, with its arguments
    out,            \* what that operation returned or raised
    calls,          \* the library calls that operation made, in order
    persisted,      \* the in-memory index that save_local last wrote out, or NoStore
    conversation,   \* the chat history the caller holds and sends along
    heap,           \* the RAGService objects the threaded server has constructed
    requests        \* the requests the threaded server has accepted, each with
                    \* the position of its handler and the handler's locals

vars == <<chunks_dir, index_dir, env, rag, rag_service, op, out, calls, persisted,
          conversation, heap, requests>>

----------------------------------------------------------------------------
(* Bounds of the model *)

\* the longest chunk store, in lines
MaxLines == 3
\* the largest k asked of a search
MaxK == 4
\* the longest structured chat history, in turns
MaxTurns == 3

(* Program constants *)

\* doc.page_content[:200]
PreviewLen == 200
\* k = data.get("k", 3), generate_suggestion(..., k=3)
DefaultK == 3

----------------------------------------------------------------------------
(* Python values *)

PyNone == [t |-> "None"]
PyStr(s) == [t |-> "str", v |-> s]
PyList(s) == [t |-> "list", v |-> s]
PyDict(d) == [t |-> "dict", v |-> d]
PyInt(n) == [t |-> "int", v |-> n]

\* the empty dict: a function with no keys
EmptyDict == [key \in {} |-> ""]

\* dict.get(key, default)
Get(d, key, default) == IF key \in DOMAIN d THEN d[key] ELSE default

\* Python truthiness of a tagged value
Truthy(x) ==
    CASE x.t = "None" -> FALSE
      [] x.t = "str" -> x.v # ""
      [] x.t = "list" -> x.v # <<>>
      [] x.t = "dict" -> DOMAIN x.v # {}
      [] x.t = "int" -> x.v # 0

\* s * n for a one-character string s
RECURSIVE Repeat(_, _)
Repeat(s, n) ==
    IF n = 0 THEN ""
    ELSE IF n % 2 = 1 THEN s \o Repeat(s, n - 1)
    ELSE Repeat(s, n \div 2) \o Repeat(s, n \div 2)

Min(a, b) == IF a <= b THEN a ELSE b
Abs(a) == IF a < 0 THEN 0 - a ELSE a

----------------------------------------------------------------------------
(* The chunk store: one JSONL line is blank, is not JSON, or is a JSON object *)
(* The files of the directory are read one after the other, so the store is  *)
(* the sequence of their lines.                                              *)

BlankLine == [kind |-> "blank"]
BadLine == [kind |-> "bad"]
JsonLine(obj) == [kind |-> "json", obj |-> obj]

\* a record as extract_text.py writes it, with every field
ChunkFull == [text |-> "Cache reads near the client.", chunk_id |-> 1,
              source_file |-> "design.pdf", token_count |-> 6]
\* a record holding only the required field, with a passage longer than a preview
ChunkBare == [text |-> Repeat("x", PreviewLen + 5)]
\* the first record of a source as extract_text.py writes it, a long passage
ChunkLong == [text |-> Repeat("y", PreviewLen + 5), chunk_id |-> 0,
              source_file |-> "design.pdf", token_count |-> 512]

Lines == {BadLine, JsonLine(ChunkFull), JsonLine(ChunkBare)}

RECURSIVE SeqsUpTo(_, _)
SeqsUpTo(S, n) ==
    IF n = 0 THEN {<<>>}
    ELSE LET shorter == SeqsUpTo(S, n - 1)
         IN shorter \cup {Append(s, x) : s \in {t \in shorter : Len(t) = n - 1}, x \in S}

ChunkDirs ==
    {[exists |-> FALSE, lines |-> <<>>]}
    \cup {[exists |-> TRUE, lines |-> ls] : ls \in SeqsUpTo(Lines, MaxLines)}

\* the store a later run of the extraction stage leaves behind
Extracted == [exists |-> TRUE, lines |-> <<JsonLine(ChunkLong), JsonLine(ChunkFull)>>]

\* exceptions and results
NoExc == [type |-> "none", msg |-> ""]
Exc(type, msg) == [type |-> type, msg |-> msg]
Raised(r) == r.exc.type # "none"

\* Document(page_content=chunk["text"], metadata={...})
Document(chunk) ==
    [page_content |-> chunk["text"],
     metadata |-> [chunk_id |-> Get(chunk, "chunk_id", 0),
                   source_file |-> Get(chunk, "source_file", ""),
                   token_count |-> Get(chunk, "token_count", 0)]]

\* the loop of load_chunks over the lines of the record files
RECURSIVE ReadLines(_, _)
ReadLines(lines, chunks) ==
    IF lines = <<>> THEN [exc |-> NoExc, chunks |-> chunks]
    ELSE LET line == Head(lines)
         IN CASE line.kind = "blank" -> ReadLines(Tail(lines), chunks)
              [] line.kind = "bad" ->
                    [exc |-> Exc("JSONDecodeError", "Expecting value"), chunks |-> <<>>]
              [] line.kind = "json" ->
                    IF "text" \notin DOMAIN line.obj
                    THEN [exc |-> Exc("KeyError", "'text'"), chunks |-> <<>>]
                    ELSE ReadLines(Tail(lines), Append(chunks, Document(line.obj)))

\* RAGService.load_chunks
load_chunks(dir) ==
    IF ~dir.exists THEN [exc |-> NoExc, chunks |-> <<>>]
    ELSE ReadLines(dir.lines, <<>>)

----------------------------------------------------------------------------
(* The vector index (langchain_community FAISS over MiniLM embeddings) *)

\* the embedding of a text: a deterministic function of the text alone
Embed(text) == Len(text) % 7

\* the distance between two embeddings
Distance(a, b) == Abs(a - b)

NoStore == [t |-> "None"]

\* FAISS.from_documents(chunks, embeddings): one vector per document, the
\* documents in a docstore keyed by id, and the id of each vector
from_documents(chunks) ==
    [t |-> "FAISS",
     index |-> [i \in 1..Len(chunks) |-> Embed(chunks[i].page_content)],
     docstore |-> [i \in 1..Len(chunks) |-> chunks[i]],
     index_to_docstore_id |-> [i \in 1..Len(chunks) |-> i]]

\* positions of the index ordered by distance to the query, nearest first,
\* the earlier vector first among equals
RECURSIVE Nearest(_, _, _, _)
Nearest(index, q, taken, k) ==
    LET left == (1..Len(index)) \ taken
    IN IF k = 0 \/ left = {} THEN <<>>
       ELSE LET best == CHOOSE i \in left : \A j \in left :
                            \/ Distance(index[i], q) < Distance(index[j], q)
                            \/ /\ Distance(index[i], q) = Distance(index[j], q)
                               /\ i <= j
            IN <<best>> \o Nearest(index, q, taken \cup {best}, k - 1)

\* vectorstore.similarity_search(query, k=k): the k nearest documents; the
\* index pads a short answer with -1, which the store skips
similarity_search(store, query, k) ==
    LET hits == Nearest(store.index, Embed(query), {}, k)
    IN [n \in 1..Len(hits) |-> store.docstore[store.index_to_docstore_id[hits[n]]]]

\* the two artifacts of a persisted index
NoFile == [kind |-> "absent"]
Corrupt == [kind |-> "corrupt"]
IsFile(f) == f.kind # "absent"

\* vectorstore.save_local(dir): index.faiss holds the vectors, index.pkl the
\* docstore and the id table
save_local(store) ==
    [faiss |-> [kind |-> "faiss", vectors |-> store.index],
     pkl |-> [kind |-> "pkl", docstore |-> store.docstore,
              index_to_docstore_id |-> store.index_to_docstore_id]]

\* FAISS.load_local(dir, embeddings, ...): raises unless both artifacts read back
load_local(dir) ==
    IF dir.faiss.kind = "faiss" /\ dir.pkl.kind = "pkl"
    THEN [exc |-> NoExc,
          store |-> [t |-> "FAISS",
                     index |-> dir.faiss.vectors,
                     docstore |-> dir.pkl.docstore,
                     index_to_docstore_id |-> dir.pkl.index_to_docstore_id]]
    ELSE [exc |-> Exc("RuntimeError", "could not read index"), store |-> NoStore]


----------------------------------------------------------------------------
(* Chat history *)

\* json.loads over the strings the model sends as chat history
JsonLoads(s) ==
    CASE s = "[{\"role\": \"user\", \"content\": \"My API is slow\"}]" ->
            [exc |-> NoExc,
             val |-> PyList(<<PyDict([role |-> "user", content |-> "My API is slow"])>>)]
      [] s = "[]" -> [exc |-> NoExc, val |-> PyList(<<>>)]
      [] s = "[1]" -> [exc |-> NoExc, val |-> PyList(<<PyInt(1)>>)]
      [] s = "{}" -> [exc |-> NoExc, val |-> PyDict(EmptyDict)]
      [] s = "{\"role\": \"user\"}" -> [exc |-> NoExc, val |-> PyDict([role |-> "user"])]
      [] s = "\"\"" -> [exc |-> NoExc, val |-> PyStr("")]
      [] s = "\"hi\"" -> [exc |-> NoExc, val |-> PyStr("hi")]
      [] s = "42" -> [exc |-> NoExc, val |-> PyInt(42)]
      [] s = "null" -> [exc |-> NoExc, val |-> PyNone]
      [] OTHER -> [exc |-> Exc("JSONDecodeError", "Expecting value"), val |-> PyNone]

RECURSIVE SetToSeq(_)
SetToSeq(S) ==
    IF S = {} THEN <<>>
    ELSE LET x == CHOOSE y \in S : TRUE IN <<x>> \o SetToSeq(S \ {x})

\* what "for msg in messages" walks over: the elements of a list, the keys
\* of a dict, the characters of a string; anything else is not iterable
Iterate(x) ==
    CASE x.t = "list" -> [exc |-> NoExc, items |-> x.v]
      [] x.t = "dict" ->
            [exc |-> NoExc,
             items |-> LET keys == SetToSeq(DOMAIN x.v)
                       IN [i \in 1..Len(keys) |-> PyStr(keys[i])]]
      [] x.t = "str" ->
            [exc |-> NoExc, items |-> [i \in 1..Len(x.v) |-> PyStr(SubSeq(x.v, i, i))]]
      [] OTHER -> [exc |-> Exc("TypeError", "object is not iterable"), items |-> <<>>]

\* the "elif role == assistant" of the loop turned into an else
RECURSIVE FormatTurns_else_assistant(_, _)
FormatTurns_else_assistant(messages, formatted) ==
    IF messages = <<>> THEN [exc |-> NoExc, formatted |-> formatted]
    ELSE LET msg == Head(messages)
         IN IF msg.t # "dict"
            THEN [exc |-> Exc("AttributeError", "object has no attribute 'get'"),
                  formatted |-> formatted]
            ELSE LET role == Get(msg.v, "role", "user")
                     content == Get(msg.v, "content", "")
                 IN FormatTurns_else_assistant(Tail(messages),
                        IF role = "user" THEN Append(formatted, "User: " \o content)
                        ELSE Append(formatted, "Assistant: " \o content))

\* the body of the loop of format_chat_history
RECURSIVE FormatTurns(_, _)
FormatTurns(messages, formatted) ==
    IF messages = <<>> THEN [exc |-> NoExc, formatted |-> formatted]
    ELSE LET msg == Head(messages)
         IN IF msg.t # "dict"
            THEN [exc |-> Exc("AttributeError", "object has no attribute 'get'"),
                  formatted |-> formatted]
            ELSE LET role == Get(msg.v, "role", "user")
                     content == Get(msg.v, "content", "")
                 IN FormatTurns(Tail(messages),
                        IF role = "user" THEN Append(formatted, "User: " \o content)
                        ELSE IF role = "assistant"
                             THEN Append(formatted, "Assistant: " \o content)
                             ELSE formatted)

\* sep.join(parts)
RECURSIVE Join(_, _)
Join(parts, sep) ==
    IF parts = <<>> THEN ""
    ELSE IF Len(parts) = 1 THEN parts[1]
    ELSE parts[1] \o sep \o Join(Tail(parts), sep)

\* format_chat_history whose except clause gives up the text
format_chat_history_drops(chat_history) ==
    IF ~Truthy(chat_history) THEN PyList(<<>>)
    ELSE LET parsed == IF chat_history.t = "str" THEN JsonLoads(chat_history.v)
                       ELSE [exc |-> NoExc, val |-> chat_history]
         IN IF Raised(parsed) THEN PyStr("")
            ELSE LET it == Iterate(parsed.val)
                 IN IF Raised(it) THEN PyStr("")
                    ELSE LET done == FormatTurns(it.items, <<>>)
                         IN IF Raised(done) THEN PyStr("")
                            ELSE PyStr(Join(done.formatted, "\n"))

\* RAGService.format_chat_history: try ... except: return chat_history
format_chat_history(chat_history) ==
    IF ~Truthy(chat_history) THEN PyList(<<>>)
    ELSE LET parsed == IF chat_history.t = "str" THEN JsonLoads(chat_history.v)
                       ELSE [exc |-> NoExc, val |-> chat_history]
         IN IF Raised(parsed) THEN chat_history
            ELSE LET it == Iterate(parsed.val)
                 IN IF Raised(it) THEN chat_history
                    ELSE LET done == FormatTurns(it.items, <<>>)
                         IN IF Raised(done) THEN chat_history
                            ELSE PyStr(Join(done.formatted, "\n"))

\* the turns a structured chat history is made of
Roles == {"user", "assistant", "system"}
Contents == {"My API is slow", "Try a cache"}
Turns == {PyDict([role |-> r, content |-> c]) : r \in Roles, c \in Contents}
         \cup {PyDict([content |-> "no role given"])}

\* the chat histories sent as strings
ChatStrings ==
    {"[{\"role\": \"user\", \"content\": \"My API is slow\"}]", "[]", "[1]", "{}",
     "{\"role\": \"user\"}", "\"\"", "\"hi\"", "42", "null", "My API is slow", " ", ""}


----------------------------------------------------------------------------
(* RAGService *)

NoService == [t |-> "None"]
NoLlm == [t |-> "None"]
AzureChatOpenAI == [t |-> "AzureChatOpenAI"]

\* RAGService.__init__
RAGService == [t |-> "RAGService", vectorstore |-> NoStore, llm |-> NoLlm]

Ready(self) == self.t = "RAGService" /\ self.vectorstore.t = "FAISS"

\* the build without the "if not chunks" test: an empty index is built and saved
BuildIndex_no_empty_test(self, dir, chunks, log) ==
    LET loaded == load_chunks(chunks)
    IN IF Raised(loaded)
       THEN [self |-> self, index_dir |-> dir, exc |-> loaded.exc, ret |-> FALSE,
             calls |-> log \o <<"load_chunks">>, saved |-> FALSE]
       ELSE LET store == from_documents(loaded.chunks)
            IN [self |-> [self EXCEPT !.vectorstore = store],
                index_dir |-> save_local(store), exc |-> NoExc, ret |-> TRUE,
                calls |-> log \o <<"load_chunks", "from_documents", "save_local">>,
                saved |-> TRUE]

\* the tail of build_or_load_index: build from the chunk store and persist
BuildIndex(self, dir, chunks, log) ==
    LET loaded == load_chunks(chunks)
    IN IF Raised(loaded)
       THEN [self |-> self, index_dir |-> dir, exc |-> loaded.exc, ret |-> FALSE,
             calls |-> log \o <<"load_chunks">>, saved |-> FALSE]
       ELSE IF loaded.chunks = <<>>
       THEN [self |-> self, index_dir |-> dir, exc |-> NoExc, ret |-> FALSE,
             calls |-> log \o <<"load_chunks">>, saved |-> FALSE]
       ELSE LET store == from_documents(loaded.chunks)
            IN [self |-> [self EXCEPT !.vectorstore = store],
                index_dir |-> save_local(store), exc |-> NoExc, ret |-> TRUE,
                calls |-> log \o <<"load_chunks", "from_documents", "save_local">>,
                saved |-> TRUE]

\* build_or_load_index without the try/except around load_local
build_or_load_index_no_fallback(self, dir, chunks, force_rebuild) ==
    LET has_index == IsFile(dir.faiss) /\ IsFile(dir.pkl)
    IN IF has_index /\ ~force_rebuild
       THEN LET loaded == load_local(dir)
            IN [self |-> IF Raised(loaded) THEN self
                         ELSE [self EXCEPT !.vectorstore = loaded.store],
                index_dir |-> dir, exc |-> loaded.exc, ret |-> ~Raised(loaded),
                calls |-> <<"load_local">>, saved |-> FALSE]
       ELSE BuildIndex(self, dir, chunks, <<>>)

\* build_or_load_index that never looks for a persisted index
build_or_load_index_always_rebuild(self, dir, chunks, force_rebuild) ==
    BuildIndex(self, dir, chunks, <<>>)

\* RAGService.build_or_load_index
build_or_load_index(self, dir, chunks, force_rebuild) ==
    LET has_index == IsFile(dir.faiss) /\ IsFile(dir.pkl)
    IN IF has_index /\ ~force_rebuild
       THEN LET loaded == load_local(dir)
            IN IF ~Raised(loaded)
               THEN [self |-> [self EXCEPT !.vectorstore = loaded.store],
                     index_dir |-> dir, exc |-> NoExc, ret |-> TRUE,
                     calls |-> <<"load_local">>, saved |-> FALSE]
               ELSE BuildIndex(self, dir, chunks, <<"load_local">>)
       ELSE BuildIndex(self, dir, chunks, <<>>)

\* RAGService.initialize_llm
initialize_llm(self, environ) ==
    IF ~environ.API_KEY \/ ~environ.DEPLOYMENT_ID
    THEN [self |-> self,
          exc |-> Exc("ValueError",
                      "API_KEY and DEPLOYMENT_ID must be set in environment variables")]
    ELSE [self |-> [self EXCEPT !.llm = AzureChatOpenAI], exc |-> NoExc]

\* str(i) for the reference numbers
ToStr(i) == CASE i = 1 -> "1" [] i = 2 -> "2" [] i = 3 -> "3" [] i = 4 -> "4"
              [] i = 5 -> "5" [] i = 6 -> "6" [] OTHER -> "n"

\* an f-string's rendering of a value
Format(x) == IF x.t = "str" THEN x.v ELSE IF x.t = "None" THEN "None" ELSE "[...]"

\* prompt_template.format(...): the fixed text of the template is the same in
\* every prompt, so a prompt is the four sections filled into it
Prompt(context_section, chat_section, scratchpad_section, query) ==
    [context_section |-> context_section, chat_section |-> chat_section,
     scratchpad_section |-> scratchpad_section, query |-> query]

NoPrompt == Prompt("", "", "", "")

\* one entry of the references list
Reference(doc, i) ==
    [chunk_id |-> Get(doc.metadata, "chunk_id", i),
     source |-> Get(doc.metadata, "source_file", "unknown"),
     preview |-> SubSeq(doc.page_content, 1, Min(PreviewLen, Len(doc.page_content)))
                 \o "..."]

NoResult == [suggestion |-> "", nudge |-> "", references |-> <<>>]

\* references that lose the first retrieved document
References_skip_first(relevant_docs) ==
    [i \in 1..(Len(relevant_docs) - 1) |-> Reference(relevant_docs[i + 1], i)]

\* the references list, one entry per retrieved document
References(relevant_docs) ==
    [i \in 1..Len(relevant_docs) |-> Reference(relevant_docs[i], i)]

NotInitialized ==
    Exc("ValueError", "Vector store not initialized. Call build_or_load_index() first.")

\* if not self.llm: self.initialize_llm()
EnsureLlm(self, environ) ==
    IF self.llm.t = "None"
    THEN LET r == initialize_llm(self, environ)
         IN [self |-> r.self, exc |-> r.exc, calls |-> <<"initialize_llm">>]
    ELSE [self |-> self, exc |-> NoExc, calls |-> <<>>]

\* generate_suggestion from the retrieval on: search, prompt, one LLM call,
\* references; reply is what llm.invoke gives
Suggest(self, log, query, chat_history, scratchpad, k, reply) ==
    LET relevant_docs == similarity_search(self.vectorstore, query, k)
        context_parts == [i \in 1..Len(relevant_docs) |->
             "[Reference " \o ToStr(i) \o "]\n" \o relevant_docs[i].page_content]
        context == Join(context_parts, "\n\n")
        chat_context == IF Truthy(chat_history) THEN format_chat_history(chat_history)
                        ELSE PyStr("")
        context_section == IF context # "" THEN "Relevant Knowledge:\n" \o context ELSE ""
        chat_section == IF Truthy(chat_context)
                        THEN "Chat History:\n" \o Format(chat_context) ELSE ""
        scratchpad_section == IF Truthy(scratchpad)
                              THEN "Scratchpad Notes:\n" \o Format(scratchpad) ELSE ""
        prompt == Prompt(context_section, chat_section, scratchpad_section, query)
        log2 == log \o <<"similarity_search", "llm.invoke">>
    IN IF Raised(reply)
       THEN [self |-> self, ret |-> NoResult, prompt |-> prompt, calls |-> log2,
             exc |-> reply.exc]
       ELSE [self |-> self, prompt |-> prompt, calls |-> log2, exc |-> NoExc,
             ret |-> [suggestion |-> reply.content, nudge |-> reply.content,
                      references |-> References(relevant_docs)]]

\* generate_suggestion that sets up the LLM before it looks at the index
generate_suggestion_llm_first(self, environ, query, chat_history, scratchpad, k, reply) ==
    LET init == EnsureLlm(self, environ)
    IN IF Raised(init)
       THEN [self |-> init.self, ret |-> NoResult, prompt |-> NoPrompt,
             calls |-> init.calls, exc |-> init.exc]
       ELSE IF self.vectorstore.t = "None"
       THEN [self |-> init.self, ret |-> NoResult, prompt |-> NoPrompt,
             calls |-> init.calls, exc |-> NotInitialized]
       ELSE Suggest(init.self, init.calls, query, chat_history, scratchpad, k, reply)

\* RAGService.generate_suggestion
generate_suggestion(self, environ, query, chat_history, scratchpad, k, reply) ==
    IF self.vectorstore.t = "None"
    THEN [self |-> self, ret |-> NoResult, prompt |-> NoPrompt, calls |-> <<>>,
          exc |-> NotInitialized]
    ELSE LET init == EnsureLlm(self, environ)
         IN IF Raised(init)
            THEN [self |-> init.self, ret |-> NoResult, prompt |-> NoPrompt,
                  calls |-> init.calls, exc |-> init.exc]
            ELSE Suggest(init.self, init.calls, query, chat_history, scratchpad, k, reply)

----------------------------------------------------------------------------
(* Inputs *)

Envs == [API_KEY : BOOLEAN, DEPLOYMENT_ID : BOOLEAN]

\* a .env file that sets both credentials, or none
DotEnvs == {e \in Envs : e.API_KEY = e.DEPLOYMENT_ID}

Queries == {"How should I implement caching?", "queue"}

\* the scratchpad of test_rag_query
TestScratchpad == PyStr("Need low latency, handle 10k concurrent users")

Scratchpads == {PyNone, TestScratchpad}

\* what llm.invoke(...).content gives, or the failure of the remote call
Replies ==
    {[exc |-> NoExc, content |-> "What would you cache first?"],
     [exc |-> NoExc, content |-> "Which reads repeat?"],
     [exc |-> Exc("APIConnectionError", "Connection error."), content |-> ""]}

\* the reply the direct callers are given
TestReplies == {r \in Replies : r.content = "What would you cache first?"}

\* the chat history of test_rag_query
TestHistory == PyList(<<PyDict([role |-> "user", content |-> "My API is slow"])>>)

Idle == [name |-> "none"]
Nothing == [exc |-> NoExc]

EmptyIndexDir == [faiss |-> NoFile, pkl |-> NoFile]

----------------------------------------------------------------------------
(* The service used directly, as main() and the pipeline tests use it *)

Init ==
    /\ chunks_dir \in ChunkDirs
    /\ index_dir = EmptyIndexDir
    /\ env \in DotEnvs
    /\ rag = NoService
    /\ rag_service = NoService
    /\ op = Idle
    /\ out = Nothing
    /\ calls = <<>>
    /\ persisted = NoStore
    /\ conversation = TestHistory
    /\ heap = <<>>
    /\ requests = <<>>

\* rag = RAGService(chunks_dir, index_dir)
NewService ==
    /\ rag' = RAGService
    /\ op' = [name |-> "RAGService"]
    /\ out' = Nothing
    /\ calls' = <<>>
    /\ UNCHANGED <<chunks_dir, index_dir, env, rag_service, persisted, conversation,
                 heap, requests>>

\* rag.build_or_load_index(force_rebuild)
BuildOrLoadIndex ==
    /\ rag # NoService
    /\ \E force_rebuild \in BOOLEAN :
         LET r == build_or_load_index(rag, index_dir, chunks_dir, force_rebuild)
         IN /\ rag' = r.self
            /\ index_dir' = r.index_dir
            /\ op' = [name |-> "build_or_load_index", force_rebuild |-> force_rebuild,
                      fresh |-> (rag = RAGService),
                      found |-> [faiss |-> index_dir.faiss.kind, pkl |-> index_dir.pkl.kind]]
            /\ out' = [exc |-> r.exc, ret |-> r.ret]
            /\ calls' = r.calls
            /\ persisted' = IF r.saved THEN r.self.vectorstore ELSE persisted
    /\ UNCHANGED <<chunks_dir, env, rag_service, conversation, heap, requests>>

\* rag.initialize_llm()
InitializeLlm ==
    /\ rag # NoService
    /\ LET r == initialize_llm(rag, env)
       IN /\ rag' = r.self
          /\ op' = [name |-> "initialize_llm"]
          /\ out' = [exc |-> r.exc]
          /\ calls' = <<>>
    /\ UNCHANGED <<chunks_dir, index_dir, env, rag_service, persisted, conversation,
                 heap, requests>>

\* rag.generate_suggestion(query, chat_history, scratchpad, k)
GenerateSuggestion ==
    /\ rag # NoService
    /\ \E query \in Queries, k \in 1..MaxK, reply \in TestReplies :
         LET r == generate_suggestion(rag, env, query, conversation, TestScratchpad, k, reply)
         IN /\ rag' = r.self
            /\ op' = [name |-> "generate_suggestion", ready |-> Ready(rag), query |-> query,
                      chat_history |-> conversation, scratchpad |-> TestScratchpad, k |-> k,
                      reply |-> reply]
            /\ out' = [exc |-> r.exc, ret |-> r.ret, prompt |-> r.prompt]
            /\ calls' = r.calls
    /\ UNCHANGED <<chunks_dir, index_dir, env, rag_service, persisted, conversation,
                 heap, requests>>

\* an artifact of the index directory is deleted behind the service's back
RemoveArtifact ==
    /\ \/ /\ IsFile(index_dir.faiss)
          /\ index_dir' = [index_dir EXCEPT !.faiss = NoFile]
       \/ /\ IsFile(index_dir.pkl)
          /\ index_dir' = [index_dir EXCEPT !.pkl = NoFile]
    /\ op' = Idle
    /\ out' = Nothing
    /\ calls' = <<>>
    /\ UNCHANGED <<chunks_dir, env, rag, rag_service, persisted, conversation, heap, requests>>

\* an artifact is damaged, or was written by an incompatible library version
CorruptArtifact ==
    /\ \/ /\ index_dir.faiss.kind = "faiss"
          /\ index_dir' = [index_dir EXCEPT !.faiss = Corrupt]
       \/ /\ index_dir.pkl.kind = "pkl"
          /\ index_dir' = [index_dir EXCEPT !.pkl = Corrupt]
    /\ op' = Idle
    /\ out' = Nothing
    /\ calls' = <<>>
    /\ UNCHANGED <<chunks_dir, env, rag, rag_service, persisted, conversation, heap, requests>>

\* the extraction stage rewrites the chunk store
ExtractText ==
    /\ chunks_dir # Extracted
    /\ chunks_dir' = Extracted
    /\ op' = Idle
    /\ out' = Nothing
    /\ calls' = <<>>
    /\ UNCHANGED <<index_dir, env, rag, rag_service, persisted, conversation, heap, requests>>

\* the record files are removed from the chunk directory
RemoveChunks ==
    /\ chunks_dir.exists /\ chunks_dir.lines # <<>>
    /\ chunks_dir' = [exists |-> TRUE, lines |-> <<>>]
    /\ op' = Idle
    /\ out' = Nothing
    /\ calls' = <<>>
    /\ UNCHANGED <<index_dir, env, rag, rag_service, persisted, conversation, heap, requests>>

Next ==
    \/ NewService
    \/ BuildOrLoadIndex
    \/ InitializeLlm
    \/ GenerateSuggestion
    \/ RemoveArtifact
    \/ CorruptArtifact
    \/ ExtractText
    \/ RemoveChunks

Spec == Init /\ [][Next]_vars


----------------------------------------------------------------------------
(* The chat history: the service is built from a fixed store and is handed  *)
(* the conversation the caller holds                                        *)

\* the chat histories a caller may hold: none, a string, a list of turns
Histories ==
    {PyNone}
    \cup {PyStr(str) : str \in ChatStrings}
    \cup {PyList(turns) : turns \in SeqsUpTo(Turns, MaxTurns)}

AllSet == [API_KEY |-> TRUE, DEPLOYMENT_ID |-> TRUE]

ChatInit ==
    /\ chunks_dir = Extracted
    /\ index_dir = EmptyIndexDir
    /\ env = AllSet
    /\ rag = NoService
    /\ rag_service = NoService
    /\ op = Idle
    /\ out = Nothing
    /\ calls = <<>>
    /\ persisted = NoStore
    /\ conversation \in Histories
    /\ heap = <<>>
    /\ requests = <<>>

\* rag.format_chat_history(chat_history)
FormatChatHistory ==
    /\ rag # NoService
    /\ op' = [name |-> "format_chat_history", chat_history |-> conversation]
    /\ out' = [exc |-> NoExc, ret |-> format_chat_history(conversation)]
    /\ calls' = <<>>
    /\ UNCHANGED <<chunks_dir, index_dir, env, rag, rag_service, persisted, conversation,
                 heap, requests>>

\* rag.generate_suggestion(query, chat_history, scratchpad) with the default k
Chat ==
    /\ rag # NoService
    /\ \E query \in {"How should I implement caching?"}, scratchpad \in Scratchpads,
          reply \in TestReplies :
         LET r == generate_suggestion(rag, env, query, conversation, scratchpad,
                                      DefaultK, reply)
         IN /\ rag' = r.self
            /\ op' = [name |-> "generate_suggestion", ready |-> Ready(rag), query |-> query,
                      chat_history |-> conversation, scratchpad |-> scratchpad,
                      k |-> DefaultK, reply |-> reply]
            /\ out' = [exc |-> r.exc, ret |-> r.ret, prompt |-> r.prompt]
            /\ calls' = r.calls
    /\ UNCHANGED <<chunks_dir, index_dir, env, rag_service, persisted, conversation,
                 heap, requests>>

ChatNext ==
    \/ NewService
    \/ BuildOrLoadIndex
    \/ FormatChatHistory
    \/ Chat

ChatSpec == ChatInit /\ [][ChatNext]_vars

----------------------------------------------------------------------------
(* The Flask facade: one module-level service shared by the handlers *)

\* the chunk stores the server is started on
ApiChunkDirs ==
    {[exists |-> FALSE, lines |-> <<>>],
     [exists |-> TRUE, lines |-> <<BadLine>>],
     [exists |-> TRUE, lines |-> <<BlankLine, JsonLine(ChunkBare), BlankLine>>],
     Extracted}

\* request.json of a POST: a JSON object with any of the four fields, or a
\* JSON value that is no object
Bodies ==
    {PyDict(d) : d \in
        {[key \in keys |->
            CASE key = "query" -> q
              [] key = "chat_history" -> TestHistory
              [] key = "scratchpad" -> TestScratchpad
              [] key = "k" -> 1] :
         keys \in SUBSET {"query", "chat_history", "scratchpad", "k"},
         q \in {PyStr(""), PyStr("How should I implement caching?")}}}
    \cup {PyNone, PyList(<<>>)}

\* jsonify(...), status
Response(status, body) == [status |-> status, body |-> body]

\* get_rag_service after build_or_load_index(): initialize_llm() unless it raised
Constructed(built, environ) ==
    IF Raised(built)
    THEN [rag_service |-> built.self, index_dir |-> built.index_dir,
          exc |-> built.exc, calls |-> built.calls, saved |-> built.saved]
    ELSE [rag_service |-> initialize_llm(built.self, environ).self,
          index_dir |-> built.index_dir,
          exc |-> initialize_llm(built.self, environ).exc,
          calls |-> built.calls \o <<"initialize_llm">>,
          saved |-> built.saved]

\* get_rag_service: the singleton is assigned before it is built
get_rag_service(service, dir, chunks, environ) ==
    IF service # NoService
    THEN [rag_service |-> service, index_dir |-> dir, exc |-> NoExc, calls |-> <<>>,
          saved |-> FALSE]
    ELSE Constructed(build_or_load_index(RAGService, dir, chunks, FALSE), environ)

\* the 200 body of rag_suggest without the nudge field
SuggestBody_no_nudge(result) ==
    [suggestion |-> result.suggestion, references |-> result.references]

\* the 200 body of rag_suggest
SuggestBody(result) ==
    [suggestion |-> result.suggestion,
     nudge |-> Get(result, "nudge", result.suggestion),
     references |-> result.references]

\* except Exception as e: return jsonify({"error": str(e)}), 500
ServerError(exc) == Response(500, [error |-> exc.msg])

\* the answer of rag_suggest to what generate_suggestion returned or raised
Answer(got, r) ==
    [rag_service |-> r.self, index_dir |-> got.index_dir, saved |-> got.saved,
     calls |-> got.calls \o r.calls, exc |-> r.exc, result |-> r.ret,
     response |-> IF Raised(r) THEN ServerError(r.exc)
                  ELSE Response(200, SuggestBody(r.ret))]

\* rag_suggest once get_rag_service has returned or raised
Served(got, environ, data, reply) ==
    IF Raised(got)
    THEN [rag_service |-> got.rag_service, index_dir |-> got.index_dir,
          saved |-> got.saved, calls |-> got.calls, exc |-> got.exc,
          result |-> NoResult, response |-> ServerError(got.exc)]
    ELSE Answer(got, generate_suggestion(got.rag_service, environ,
                         Get(data, "query", PyNone).v,
                         Get(data, "chat_history", PyNone),
                         Get(data, "scratchpad", PyNone),
                         Get(data, "k", DefaultK), reply))

\* the answer to a body that is no JSON object: data.get raises
NoObject(service, dir) ==
    [rag_service |-> service, index_dir |-> dir, saved |-> FALSE, calls |-> <<>>,
     exc |-> Exc("AttributeError", "object has no attribute 'get'"),
     result |-> NoResult,
     response |-> ServerError(Exc("AttributeError", "object has no attribute 'get'"))]

\* if not query: return jsonify({"error": "query is required"}), 400
QueryRequired(service, dir, log) ==
    [rag_service |-> service, index_dir |-> dir, saved |-> FALSE, calls |-> log,
     exc |-> NoExc, result |-> NoResult,
     response |-> Response(400, [error |-> "query is required"])]

\* rag_suggest with the query looked at after the service was obtained
ValidatedLate(got, environ, data, reply) ==
    IF ~Raised(got) /\ ~Truthy(Get(data, "query", PyNone))
    THEN QueryRequired(got.rag_service, got.index_dir, got.calls)
    ELSE Served(got, environ, data, reply)

\* rag_suggest that asks for the service before it looks at the query
rag_suggest_validates_late(service, dir, chunks, environ, body, reply) ==
    IF body.t # "dict" THEN NoObject(service, dir)
    ELSE ValidatedLate(get_rag_service(service, dir, chunks, environ), environ,
                       body.v, reply)

\* rag_suggest; body is request.json, reply what llm.invoke gives if reached
rag_suggest(service, dir, chunks, environ, body, reply) ==
    IF body.t # "dict" THEN NoObject(service, dir)
    ELSE IF ~Truthy(Get(body.v, "query", PyNone)) THEN QueryRequired(service, dir, <<>>)
    ELSE Served(get_rag_service(service, dir, chunks, environ), environ, body.v, reply)

Rebuilt == Response(200, [status |-> "Index rebuilt successfully"])

\* the answer of rebuild_index to the new service as constructed
RebuildAnswer(made) ==
    [rag_service |-> made.rag_service, index_dir |-> made.index_dir,
     saved |-> made.saved, calls |-> made.calls, exc |-> made.exc,
     response |-> IF Raised(made) THEN ServerError(made.exc) ELSE Rebuilt]

\* an answer of rebuild_index that is 200 whatever was raised
RebuildAnswer_swallows(made) ==
    [rag_service |-> made.rag_service, index_dir |-> made.index_dir,
     saved |-> made.saved, calls |-> made.calls, exc |-> made.exc,
     response |-> Rebuilt]

\* rebuild_index that answers 200 whatever was raised
rebuild_index_swallows(dir, chunks, environ) ==
    RebuildAnswer_swallows(
        Constructed(build_or_load_index(RAGService, dir, chunks, TRUE), environ))

\* rebuild_index: a new service replaces the singleton, then it is built
rebuild_index(dir, chunks, environ) ==
    RebuildAnswer(Constructed(build_or_load_index(RAGService, dir, chunks, TRUE), environ))

ApiInit ==
    /\ chunks_dir \in ApiChunkDirs
    /\ index_dir = EmptyIndexDir
    /\ env \in Envs
    /\ rag = NoService
    /\ rag_service = NoService
    /\ op = Idle
    /\ out = Nothing
    /\ calls = <<>>
    /\ persisted = NoStore
    /\ conversation = TestHistory
    /\ heap = <<>>
    /\ requests = <<>>

\* GET /health
Health ==
    /\ op' = [name |-> "health"]
    /\ out' = [exc |-> NoExc, response |-> Response(200, [status |-> "healthy"])]
    /\ calls' = <<>>
    /\ UNCHANGED <<chunks_dir, index_dir, env, rag, rag_service, persisted, conversation,
                 heap, requests>>

\* POST /api/rag/suggest
RagSuggest ==
    /\ \E body \in Bodies, reply \in Replies :
         LET r == rag_suggest(rag_service, index_dir, chunks_dir, env, body, reply)
         IN /\ rag_service' = r.rag_service
            /\ index_dir' = r.index_dir
            /\ persisted' = IF r.saved THEN r.rag_service.vectorstore ELSE persisted
            /\ op' = [name |-> "rag_suggest", body |-> body, reply |-> reply,
                      service |-> IF rag_service = NoService THEN "none"
                                  ELSE IF Ready(rag_service) THEN "ready" ELSE "unbuilt"]
            /\ out' = [exc |-> r.exc, response |-> r.response, result |-> r.result]
            /\ calls' = r.calls
    /\ UNCHANGED <<chunks_dir, env, rag, conversation, heap, requests>>

\* POST /api/rag/rebuild-index
RebuildIndex ==
    /\ LET r == rebuild_index(index_dir, chunks_dir, env)
       IN /\ rag_service' = r.rag_service
          /\ index_dir' = r.index_dir
          /\ persisted' = IF r.saved THEN r.rag_service.vectorstore ELSE persisted
          /\ op' = [name |-> "rebuild_index"]
          /\ out' = [exc |-> r.exc, response |-> r.response]
          /\ calls' = r.calls
    /\ UNCHANGED <<chunks_dir, env, rag, conversation, heap, requests>>

ApiNext ==
    \/ Health
    \/ RagSuggest
    \/ RebuildIndex
    \/ ExtractText

ApiSpec == ApiInit /\ [][ApiNext]_vars

----------------------------------------------------------------------------
(* The threaded server: app.run serves every request in a thread of its own, *)
(* so the handlers interleave at each read and write of the module-level     *)
(* rag_service. The server is started with both credentials set and on the   *)
(* chunk store the extraction stage writes. A service is an object on the    *)
(* heap; rag_service and a handler's local rag hold a reference to it.       *)

\* the most requests the server accepts in a run
MaxRequests == 3

\* a reference to the object at a place of the heap
Ref(id) == [t |-> "ref", id |-> id]

\* no response sent yet
Pending == Response(0, EmptyDict)

\* the body of every suggestion request sent to the threaded server
TestBody == PyDict([query |-> PyStr("How should I implement caching?")])

\* the object rag_service names is Ready
SingletonReady == rag_service # NoService /\ Ready(heap[rag_service.id])

\* a rebuild that found a Ready singleton is still being handled
RebuildUnderWay ==
    \E j \in 1..Len(requests) :
        /\ requests[j].kind = "rebuild"
        /\ requests[j].pc # "done"
        /\ requests[j].since_ready

\* the handler of a request as it is entered
Handler(kind) ==
    [kind |-> kind,
     pc |-> IF kind = "rebuild" THEN "construct" ELSE "start",
     rag |-> NoService,
     since_ready |-> SingletonReady \/ RebuildUnderWay,
     constructed |-> FALSE,
     built |-> FALSE,
     observed |-> "nothing",
     exc |-> NoExc,
     response |-> Pending]

ThreadedInit ==
    /\ chunks_dir = Extracted
    /\ index_dir = EmptyIndexDir
    /\ env = AllSet
    /\ rag = NoService
    /\ rag_service = NoService
    /\ op = Idle
    /\ out = Nothing
    /\ calls = <<>>
    /\ persisted = NoStore
    /\ conversation = TestHistory
    /\ heap = <<>>
    /\ requests = <<>>

\* a POST arrives and a thread enters its handler; rag_suggest validates the
\* body, which touches nothing shared
Accept ==
    /\ Len(requests) < MaxRequests
    /\ \E kind \in {"suggest", "rebuild"} :
          requests' = Append(requests, Handler(kind))
    /\ UNCHANGED <<chunks_dir, index_dir, env, rag, rag_service, op, out, calls,
                   persisted, conversation, heap>>

\* get_rag_service: if rag_service is None
CheckSingleton ==
    \E i \in 1..Len(requests) :
        /\ requests[i].pc = "start"
        /\ requests' = [requests EXCEPT ![i].pc =
                           IF rag_service = NoService THEN "construct" ELSE "return"]
        /\ UNCHANGED <<chunks_dir, index_dir, env, rag, rag_service, op, out, calls,
                       persisted, conversation, heap>>

\* rag_service = RAGService(chunks_dir, index_dir), in get_rag_service and in
\* rebuild_index: the new object is bound to the global as it is constructed
Construct ==
    \E i \in 1..Len(requests) :
        /\ requests[i].pc = "construct"
        /\ heap' = Append(heap, RAGService)
        /\ rag_service' = Ref(Len(heap) + 1)
        /\ requests' = [requests EXCEPT ![i].pc = "build", ![i].constructed = TRUE]
        /\ UNCHANGED <<chunks_dir, index_dir, env, rag, op, out, calls, persisted,
                       conversation>>

\* rag_service.build_or_load_index(...), on the object the global names now;
\* its return value is dropped, and what it raises ends the request with 500
Build ==
    \E i \in 1..Len(requests) :
        /\ requests[i].pc = "build"
        /\ LET r == build_or_load_index(heap[rag_service.id], index_dir, chunks_dir,
                                        requests[i].kind = "rebuild")
           IN /\ heap' = [heap EXCEPT ![rag_service.id] = r.self]
              /\ index_dir' = r.index_dir
              /\ persisted' = IF r.saved THEN r.self.vectorstore ELSE persisted
              /\ requests' = [requests EXCEPT
                    ![i].built = TRUE,
                    ![i].exc = r.exc,
                    ![i].pc = IF Raised(r) THEN "done" ELSE "init_llm",
                    ![i].response = IF Raised(r) THEN ServerError(r.exc) ELSE Pending]
        /\ UNCHANGED <<chunks_dir, env, rag, rag_service, op, out, calls,
                       conversation>>

\* rag_service.initialize_llm(), on the object the global names now; in
\* rebuild_index the 200 follows
InitLlm ==
    \E i \in 1..Len(requests) :
        /\ requests[i].pc = "init_llm"
        /\ LET r == initialize_llm(heap[rag_service.id], env)
           IN /\ heap' = [heap EXCEPT ![rag_service.id] = r.self]
              /\ requests' = [requests EXCEPT
                    ![i].exc = r.exc,
                    ![i].pc = IF Raised(r) \/ requests[i].kind = "rebuild" THEN "done"
                              ELSE "return",
                    ![i].response = IF Raised(r) THEN ServerError(r.exc)
                                    ELSE IF requests[i].kind = "rebuild" THEN Rebuilt
                                    ELSE Pending]
        /\ UNCHANGED <<chunks_dir, index_dir, env, rag, rag_service, op, out, calls,
                       persisted, conversation>>

\* get_rag_service: return rag_service; rag_suggest: rag = get_rag_service()
Return ==
    \E i \in 1..Len(requests) :
        /\ requests[i].pc = "return"
        /\ requests' = [requests EXCEPT ![i].rag = rag_service, ![i].pc = "generate"]
        /\ UNCHANGED <<chunks_dir, index_dir, env, rag, rag_service, op, out, calls,
                       persisted, conversation, heap>>

\* rag_suggest: result = rag.generate_suggestion(...) and the response
Generate ==
    \E i \in 1..Len(requests) :
        /\ requests[i].pc = "generate"
        /\ \E reply \in TestReplies :
             LET self == heap[requests[i].rag.id]
                 r == generate_suggestion(self, env, TestBody.v.query.v,
                                          Get(TestBody.v, "chat_history", PyNone),
                                          Get(TestBody.v, "scratchpad", PyNone),
                                          Get(TestBody.v, "k", DefaultK), reply)
             IN /\ heap' = [heap EXCEPT ![requests[i].rag.id] = r.self]
                /\ requests' = [requests EXCEPT
                      ![i].observed = IF Ready(self) THEN "ready" ELSE "unbuilt",
                      ![i].exc = r.exc,
                      ![i].pc = "done",
                      ![i].response = IF Raised(r) THEN ServerError(r.exc)
                                      ELSE Response(200, SuggestBody(r.ret))]
        /\ UNCHANGED <<chunks_dir, index_dir, env, rag, rag_service, op, out, calls,
                       persisted, conversation>>

ThreadedNext ==
    \/ Accept
    \/ CheckSingleton
    \/ Construct
    \/ Build
    \/ InitLlm
    \/ Return
    \/ Generate

ThreadedSpec == ThreadedInit /\ [][ThreadedNext]_vars

----------------------------------------------------------------------------
(* Properties of the service used directly *)

Range(seq) == {seq[i] : i \in 1..Len(seq)}

Generated == op.name = "generate_suggestion"
Built == op.name = "build_or_load_index"

\* C1: generate_suggestion on a service whose vector index is not built or
\* loaded raises the "not initialized" error, and has made no library call by
\* then: no similarity search, no LLM initialization, no LLM invocation.
C1_NotInitializedFirst ==
    (Generated /\ ~op.ready) =>
        /\ out.exc = NotInitialized
        /\ calls = <<>>

\* C1 witness: the call on an unbuilt service in an environment without
\* credentials, where setting up the LLM first would have raised another error
C1_Witness ==
    /\ Generated /\ ~op.ready
    /\ ~env.API_KEY
    /\ rag.llm = NoLlm
    /\ out.exc = NotInitialized

\* a load of the directory as build_or_load_index found it cannot succeed
LoadCannotSucceed(found) == ~(found.faiss = "faiss" /\ found.pkl = "pkl")

\* the chunk store reads without error and holds at least one chunk
NonEmptyStore == ~Raised(load_chunks(chunks_dir)) /\ load_chunks(chunks_dir).chunks # <<>>

\* C2: when the index directory cannot be loaded (an artifact absent, or both
\* present and the load raising), build_or_load_index without force_rebuild
\* does not raise the load failure but reads the chunk store to build; with a
\* non-empty chunk store it returns True with the index Ready, built from it.
C2_LoadFailureFallsBackToBuild ==
    (Built /\ ~op.force_rebuild /\ LoadCannotSucceed(op.found)) =>
        /\ out.exc.type # "RuntimeError"
        /\ "load_chunks" \in Range(calls)
        /\ NonEmptyStore =>
              /\ out.exc = NoExc
              /\ out.ret
              /\ Ready(rag)
              /\ rag.vectorstore = from_documents(load_chunks(chunks_dir).chunks)

\* C2 witness: both artifacts present, one unreadable, a fresh service, a
\* non-empty store: the load was tried and the index was then built
C2_Witness ==
    /\ Built /\ ~op.force_rebuild /\ op.fresh
    /\ op.found = [faiss |-> "faiss", pkl |-> "corrupt"]
    /\ calls = <<"load_local", "load_chunks", "from_documents", "save_local">>
    /\ Ready(rag)

\* C4: a fresh service calling build_or_load_index without force_rebuild on a
\* directory holding both artifacts as they were persisted loads them, without
\* building anew, and ends Ready with an index whose search results, for every
\* query and k, are those of the index that was persisted: the same documents
\* in the same order.
C4_PersistLoadRoundTrip ==
    (Built /\ op.fresh /\ ~op.force_rebuild /\ ~LoadCannotSucceed(op.found)) =>
        /\ out.ret
        /\ calls = <<"load_local">>
        /\ Ready(rag)
        /\ persisted # NoStore
        /\ \A q \in Queries, k \in 1..MaxK :
              similarity_search(rag.vectorstore, q, k) = similarity_search(persisted, q, k)

\* C4 witness: a load by a fresh service after the chunk store has changed
\* under the persisted index, so that a rebuild would give another index
C4_Witness ==
    /\ Built /\ op.fresh /\ ~op.force_rebuild /\ ~LoadCannotSucceed(op.found)
    /\ calls = <<"load_local">>
    /\ Len(rag.vectorstore.index) >= 2
    /\ NonEmptyStore
    /\ \E q \in Queries, k \in 1..MaxK :
          similarity_search(from_documents(load_chunks(chunks_dir).chunks), q, k)
              # similarity_search(rag.vectorstore, q, k)

\* the number of documents of the index of the service
IndexSize == Len(rag.vectorstore.index)

\* C5: a successful generate_suggestion with k >= 1 on an index of N documents
\* returns exactly min(k, N) references, one per retrieved document in
\* retrieval order; asking for more than N is no error.
C5_ReferenceCount ==
    (Generated /\ op.ready) =>
        /\ (env.API_KEY /\ env.DEPLOYMENT_ID /\ ~Raised(op.reply)) => out.exc = NoExc
        /\ out.exc = NoExc =>
              LET docs == similarity_search(rag.vectorstore, op.query, op.k)
                  refs == out.ret.references
              IN /\ Len(refs) = Min(op.k, IndexSize)
                 /\ Len(refs) <= op.k /\ Len(refs) <= IndexSize
                 /\ (op.k = 3 /\ IndexSize >= 3) => Len(refs) = 3
                 /\ \A i \in 1..Len(refs) :
                       /\ refs[i].chunk_id = docs[i].metadata.chunk_id
                       /\ refs[i].source = docs[i].metadata.source_file

\* C5 witness: more references asked for than the index holds documents,
\* and the documents of the answer differ, so their order shows
C5_Witness ==
    /\ Generated /\ op.ready /\ out.exc = NoExc
    /\ op.k > IndexSize
    /\ Len(out.ret.references) = 2
    /\ out.ret.references[1].chunk_id # out.ret.references[2].chunk_id

\* C6: every reference of a successful generate_suggestion has a non-empty
\* source and a preview no longer than the preview length.
C6_SourceAndPreview ==
    (Generated /\ out.exc = NoExc) =>
        \A i \in 1..Len(out.ret.references) :
            /\ out.ret.references[i].source # ""
            /\ Len(out.ret.references[i].preview) <= PreviewLen


----------------------------------------------------------------------------
(* Properties of the chat history *)

Formatted == op.name = "format_chat_history"

\* a list of turns, each with a role and a content
IsTurns(x) ==
    /\ x.t = "list"
    /\ \A i \in 1..Len(x.v) : x.v[i].t = "dict" /\ DOMAIN x.v[i].v = {"role", "content"}

\* the lines of a text, split at the line breaks
RECURSIVE SplitLines(_, _)
SplitLines(text, line) ==
    IF text = "" THEN <<line>>
    ELSE IF Head(text) = "\n" THEN <<line>> \o SplitLines(Tail(text), "")
    ELSE SplitLines(Tail(text), line \o Head(text))

\* the lines a rendered chat history consists of
RenderedLines(x) == IF ~Truthy(x) THEN <<>> ELSE SplitLines(x.v, "")

Spoken(turn) == turn.v.role \in {"user", "assistant"}
LineOf(turn) ==
    (IF turn.v.role = "user" THEN "User: " ELSE "Assistant: ") \o turn.v.content

\* C7: for a chat history given as a sequence of turns, format_chat_history
\* renders exactly the turns whose role is "user" or "assistant", one line
\* each, "User: <content>" or "Assistant: <content>", in the original order;
\* a turn with any other role gives no line.
C7_RendersUserAndAssistantTurns ==
    (Formatted /\ IsTurns(op.chat_history)) =>
        LET spoken == SelectSeq(op.chat_history.v, Spoken)
            lines == RenderedLines(out.ret)
        IN /\ out.exc = NoExc
           /\ Len(lines) = Len(spoken)
           /\ \A i \in 1..Len(spoken) : lines[i] = LineOf(spoken[i])

\* C7 witness: a history of three turns with a "system" turn between an
\* assistant's and a user's, rendered as two lines
C7_Witness ==
    /\ Formatted /\ IsTurns(op.chat_history)
    /\ Len(op.chat_history.v) = 3
    /\ op.chat_history.v[1].v.role = "assistant"
    /\ op.chat_history.v[2].v.role = "system"
    /\ op.chat_history.v[3].v.role = "user"
    /\ Len(RenderedLines(out.ret)) = 2

\* the string does not parse as a JSON sequence of turns
NotATurnSequence(str) ==
    \/ Raised(JsonLoads(str))
    \/ LET val == JsonLoads(str).val
       IN \/ val.t # "list"
          \/ \E i \in 1..Len(val.v) : val.v[i].t # "dict"

\* the string parses as an empty JSON object or an empty JSON string
EmptyNonList(str) ==
    /\ ~Raised(JsonLoads(str))
    /\ JsonLoads(str).val.t \in {"dict", "str"}
    /\ ~Truthy(JsonLoads(str).val)

ChatWithString == Generated /\ op.ready /\ op.chat_history.t = "str"

\* the request went through retrieval and generation and returned
Proceeded ==
    /\ out.exc = NoExc
    /\ calls \in {<<"similarity_search", "llm.invoke">>,
                  <<"initialize_llm", "similarity_search", "llm.invoke">>}
    /\ out.ret.suggestion = op.reply.content

\* the chat section of a prompt whose chat-history text is the given text
ChatSection(text) == IF text = "" THEN "" ELSE "Chat History:\n" \o text

\* C8 as claimed: a chat history string that cannot be parsed as a JSON
\* sequence of turns does not make generate_suggestion fail; the string is
\* used unchanged as the chat-history text of the prompt, and the request
\* proceeds to retrieval and generation.
C8_UnparsableHistoryUsedUnchanged ==
    (ChatWithString /\ NotATurnSequence(op.chat_history.v)) =>
        /\ Proceeded
        /\ out.prompt.chat_section = ChatSection(op.chat_history.v)

\* C8 as amended: such a string never makes generate_suggestion fail, and the
\* request proceeds; the string is used unchanged as the chat-history text
\* unless it parses as an empty JSON object or an empty JSON string, in which
\* case the prompt carries no chat history at all.
C8_Amended ==
    (ChatWithString /\ NotATurnSequence(op.chat_history.v)) =>
        /\ Proceeded
        /\ out.prompt.chat_section =
              IF EmptyNonList(op.chat_history.v) THEN ChatSection("")
              ELSE ChatSection(op.chat_history.v)

\* C8 witness: a string that is JSON but no sequence of turns, passed on as it is
C8_Witness ==
    /\ ChatWithString
    /\ op.chat_history.v = "{\"role\": \"user\"}"
    /\ Proceeded
    /\ out.prompt.chat_section = "Chat History:\n{\"role\": \"user\"}"


----------------------------------------------------------------------------
(* Properties of the facade *)

Suggested == op.name = "rag_suggest"
RebuildAsked == op.name = "rebuild_index"

\* the body is a JSON object whose query is missing or empty
NoQuery(body) == body.t = "dict" /\ ~Truthy(Get(body.v, "query", PyNone))

\* the body is a JSON object with a query: the request passes validation
Validated(body) == body.t = "dict" /\ Truthy(Get(body.v, "query", PyNone))

\* C3: POST /api/rag/suggest with a body whose query field is missing or
\* empty answers 400 with an error field, whatever the other fields are and
\* whatever state the shared service is in; the service is not touched.
C3_MissingQueryIs400 ==
    (Suggested /\ NoQuery(op.body)) =>
        /\ out.response.status = 400
        /\ "error" \in DOMAIN out.response.body
        /\ calls = <<>>

\* C3 witness: no query but every other field, no service yet, and no
\* credentials, so that constructing the service would have failed
C3_Witness ==
    /\ Suggested /\ NoQuery(op.body)
    /\ DOMAIN op.body.v = {"chat_history", "scratchpad", "k"}
    /\ op.service = "none"
    /\ ~env.API_KEY
    /\ out.response.status = 400

\* how often a library call was made while the request was handled
Count(fn) == Cardinality({i \in 1..Len(calls) : calls[i] = fn})

\* C9: every successful suggestion response, of generate_suggestion and of
\* POST /api/rag/suggest, has a suggestion and a nudge field of the same
\* value, the text the single LLM invocation of the request returned.
C9_SuggestionAndNudgeAgree ==
    (Suggested /\ out.response.status = 200) =>
        /\ {"suggestion", "nudge"} \subseteq DOMAIN out.result
        /\ out.result.suggestion = op.reply.content
        /\ out.result.nudge = op.reply.content
        /\ {"suggestion", "nudge"} \subseteq DOMAIN out.response.body
        /\ out.response.body.suggestion = op.reply.content
        /\ out.response.body.nudge = op.reply.content
        /\ Count("llm.invoke") = 1

\* C9 witness: a 200 whose two fields carry the second of the replies
C9_Witness ==
    /\ Suggested /\ out.response.status = 200
    /\ op.reply.content = "Which reads repeat?"
    /\ out.response.body.nudge = "Which reads repeat?"
    /\ out.response.body.suggestion = "Which reads repeat?"

CredentialsSet == env.API_KEY /\ env.DEPLOYMENT_ID

\* C10: a failure raised while a validated POST /api/rag/suggest or a POST
\* /api/rag/rebuild-index is handled (index not initialized, credentials
\* missing, chunk store unreadable, LLM call failing) ends the request with
\* 500 {error: message}: a 200 is given only when none of them occurred, and
\* no library call is made twice.
C10_FailuresAre500 ==
    ((Suggested /\ Validated(op.body)) \/ RebuildAsked) =>
        /\ out.response.status \in {200, 500}
        /\ Raised(out) => out.response = Response(500, [error |-> out.exc.msg])
        /\ out.response.status = 200 =>
              /\ ~Raised(out)
              /\ CredentialsSet
              /\ rag_service.llm = AzureChatOpenAI
              /\ Suggested => Ready(rag_service) /\ ~Raised(op.reply)
              /\ RebuildAsked => ~Raised(load_chunks(chunks_dir))
        /\ (Suggested /\ Raised(op.reply) /\ Count("llm.invoke") = 1) =>
              out.response = Response(500, [error |-> op.reply.exc.msg])
        /\ ~CredentialsSet => out.response.status = 500
        /\ (Suggested /\ ~Ready(rag_service)) => out.response.status = 500
        /\ \A fn \in Range(calls) : Count(fn) = 1

\* C10 witness: the remote call fails on a Ready service with credentials
C10_Witness ==
    /\ Suggested /\ Validated(op.body)
    /\ calls = <<"similarity_search", "llm.invoke">>
    /\ out.response = Response(500, [error |-> "Connection error."])

\* the error initialize_llm raises when a credential is missing
ConfigurationError ==
    Exc("ValueError", "API_KEY and DEPLOYMENT_ID must be set in environment variables")

\* the request found the singleton in place, so get_rag_service constructed
\* nothing and every library call of the request was made by generate_suggestion
ServedByExisting == Suggested /\ op.service # "none"

\* C11: a missing credential makes initialize_llm raise the configuration
\* error and leaves the client unset; the error is raised while the service is
\* initialized, never by a per-request generate_suggestion that was reached
\* with an unconfigured client.
C11_ConfigurationErrorAtInitialization ==
    ((Suggested \/ RebuildAsked) /\ out.exc = ConfigurationError) =>
        /\ ~CredentialsSet
        /\ rag_service.llm = NoLlm
        /\ ~ServedByExisting

----------------------------------------------------------------------------
(* Properties of the build on an empty chunk store *)

\* the chunk directory does not exist, or holds no record files
EmptyChunkStore == ~chunks_dir.exists \/ chunks_dir.lines = <<>>

\* C12: when the chunk directory does not exist or holds no record files,
\* load_chunks returns no chunks and raises nothing, and a build_or_load_index
\* that comes to build returns False, leaves the index of the service as it
\* was (a fresh service is not Ready) and leaves the index directory as it was.
C12_EmptyStoreFailsBuild ==
    [][(op'.name = "build_or_load_index" /\ EmptyChunkStore) =>
          /\ load_chunks(chunks_dir) = [exc |-> NoExc, chunks |-> <<>>]
          /\ "load_chunks" \in Range(calls') =>
                /\ calls' \in {<<"load_chunks">>, <<"load_local", "load_chunks">>}
                /\ out'.exc = NoExc
                /\ out'.ret = FALSE
                /\ index_dir' = index_dir
                /\ rag'.vectorstore = rag.vectorstore
                /\ op'.fresh => ~Ready(rag')]_vars

\* C12 witness: a fresh service on a directory that exists and holds no
\* record files, after a failed load of damaged artifacts: the build failed
\* and the damaged artifacts are still what the index directory holds
C12_Witness ==
    /\ Built /\ op.fresh /\ ~op.force_rebuild
    /\ chunks_dir = [exists |-> TRUE, lines |-> <<>>]
    /\ calls = <<"load_local", "load_chunks">>
    /\ out = [exc |-> NoExc, ret |-> FALSE]
    /\ ~Ready(rag)
    /\ index_dir.faiss = Corrupt

\* C16: whenever a build_or_load_index call on a service returns, after any
\* earlier calls on it, it returns True if and only if the vector index of the
\* service is Ready at that moment; and when it returns True both artifacts
\* exist in the index directory.
C16_ReturnValueTellsReady ==
    (Built /\ ~Raised(out)) =>
        /\ out.ret <=> Ready(rag)
        /\ out.ret => IsFile(index_dir.faiss) /\ IsFile(index_dir.pkl)

----------------------------------------------------------------------------
(* Properties of the rebuild request *)

\* C15: whenever POST /api/rag/rebuild-index answers 200, the singleton is a
\* new service whose vector index is Ready and was built from the chunk store
\* as it is, not loaded from the artifacts, so that the next suggestion request
\* cannot fail as "not initialized"; a rebuild that produced no index answers 500.
C15_Rebuilt200MeansReady ==
    RebuildAsked =>
        /\ out.response.status = 200 =>
              /\ Ready(rag_service)
              /\ "load_local" \notin Range(calls)
              /\ rag_service.vectorstore = from_documents(load_chunks(chunks_dir).chunks)
              /\ \A reply \in Replies :
                    generate_suggestion(rag_service, env, "How should I implement caching?",
                                        PyNone, PyNone, DefaultK, reply).exc # NotInitialized
        /\ ~Ready(rag_service) => out.response.status = 500

----------------------------------------------------------------------------
(* Properties of the threaded server *)

\* the suggestion requests that were answered
Answered == {i \in 1..Len(requests) : requests[i].kind = "suggest" /\ requests[i].pc = "done"}

\* C13: with a Ready singleton in place, a suggestion request interleaved in
\* any way with a rebuild request is served by a service whose index is Ready,
\* the old one or the new one, and never by one whose index is not built.
C13_RebuildSwapsWholesale ==
    \A i \in Answered :
        requests[i].since_ready =>
            /\ requests[i].observed = "ready"
            /\ requests[i].exc # NotInitialized
            /\ requests[i].response.status = 200

NoRebuild == \A i \in 1..Len(requests) : requests[i].kind # "rebuild"

\* how many of the requests have the given flag set
Times(flag) == Cardinality({i \in 1..Len(requests) : requests[i][flag]})

\* C14: when no rebuild is requested, whatever the number and interleaving of
\* the suggestion requests, the service is constructed at most once and its
\* index built or loaded at most once, and every answered request was served
\* by that one instance with its index Ready.
C14_ConstructedOnce ==
    NoRebuild =>
        /\ Len(heap) <= 1
        /\ Times("constructed") <= 1
        /\ Times("built") <= 1
        /\ \A i \in Answered :
              /\ requests[i].rag = Ref(1)
              /\ requests[i].observed = "ready"
              /\ requests[i].response.status = 200


====
